---- MODULE Spec2Model ----
(***************************************************************************)
(* Verification model of the exercise crates of the repository:            *)
(*   prob3  BowlingGame (roll / score)                                      *)
(*   prob2  the postfix calculator (evaluate)                               *)
(*   prob1  Player (revive / cast_spell)                                    *)
(* The bowling game is a state machine driven by roll calls; the           *)
(* calculator is a loop over the input tokens with a value stack.          *)
(***************************************************************************)
EXTENDS Integers, Naturals, Sequences, FiniteSets, TLC

VARIABLES
    \* ---- prob3: fields of struct BowlingGame ----
    frame,            \* u8
    is_bonus_throw,   \* bool
    throws_in_frame,  \* u8
    pins_left,        \* u16
    result,           \* Vec<ThrowResult>
    \* ---- prob3: the last call of roll ----
    ret,              \* what the last roll call returned ("new" before any call)
    last_pins,        \* the argument of the last roll call
    frame_of,         \* history: value of self.frame when result[i] was pushed
    rolled,           \* history: the argument of the roll that pushed result[i]
    \* ---- prob3: the caller ----
    filler,           \* the pin count the caller rolls outside its free stretch
    free_left,        \* free rolls the caller may still take
    started,          \* the caller has begun its free stretch
    probing,          \* the caller also tries the rolls that roll refuses
    \* ---- prob2: evaluate ----
    inputs,           \* &[CalculatorInput]
    pos,              \* number of inputs the for loop has consumed
    stack,            \* Vec<CalculatorInput>
    outcome,          \* "running", "returned" or "panicked"
    retval,           \* Option<i32> returned by evaluate
    \* ---- prob1: Player ----
    player,           \* struct Player: health, mana, level
    build,            \* "debug" (overflow checks on) or "release" (wrapping)
    p_op,             \* the last call: "new", "cast_spell", "revive", "panicked"
    p_cost,           \* the argument of the last cast_spell call
    p_ret,            \* Option<u32>: what the last cast_spell call returned
    p_before,         \* history: the player at the last call
    revived,          \* Option<Player> returned by the last revive call
    casts             \* number of cast_spell calls so far

bowlingVars == <<frame, is_bonus_throw, throws_in_frame, pins_left, result,
                 ret, last_pins, frame_of, rolled, filler, free_left, started, probing>>
calcVars == <<inputs, pos, stack, outcome, retval>>
playerVars == <<player, build, p_op, p_cost, p_ret, p_before, revived, casts>>
vars == <<frame, is_bonus_throw, throws_in_frame, pins_left, result,
          ret, last_pins, frame_of, rolled, filler, free_left, started, probing,
          inputs, pos, stack, outcome, retval,
          player, build, p_op, p_cost, p_ret, p_before, revived, casts>>

(***************************************************************************)
(* Bounds                                                                  *)
(***************************************************************************)
\* largest pin count a caller passes to roll (one above a full rack)
MaxPins == 11
\* length of the stretch of rolls in which the caller rolls any pin count
MaxFree == 2
\* length of that stretch for a caller that also tries refused rolls
MaxProbeFree == 1
\* longest token sequence given to evaluate
MaxTokens == 5
\* number of cast_spell calls made on one player
MaxCasts == 2

\* pin counts the caller rolls outside the free stretch
Fillers == {0, 3, 5, 10}

(***************************************************************************)
(* Option<T>: None is the empty sequence, Some(v) the one-element sequence  *)
(***************************************************************************)
None == <<>>
Some(v) == <<v>>

(***************************************************************************)
(* Integer widths                                                          *)
(***************************************************************************)
U16 == 65536
AddU16(a, b) == (a + b) % U16

(***************************************************************************)
(* prob3: ThrowResult                                                      *)
(***************************************************************************)
Normal(n) == [kind |-> "Normal", n |-> n]
Spare(n) == [kind |-> "Spare", n |-> n]
Bonus(n) == [kind |-> "Bonus", n |-> n]
Strike == [kind |-> "Strike"]

to_score(t) ==
    CASE t.kind = "Normal" -> t.n
      [] t.kind = "Spare" -> t.n
      [] t.kind = "Bonus" -> t.n
      [] t.kind = "Strike" -> 10

(***************************************************************************)
(* prob3: BowlingGame, predicates on the current state                     *)
(***************************************************************************)
\* variant: strict comparison
has_enough_pins_strict(pins) == pins_left > pins

\* variant: one pin more than stands is accepted
has_enough_pins_loose(pins) == pins_left + 1 >= pins

has_enough_pins(pins) == pins_left >= pins

\* variant: the game goes on through frame 11
is_game_complete_late == frame > 11

is_game_complete == frame > 10

\* evaluated after remove_pins: pl is self.pins_left at the call
get_throw_result_with_pins(bonus, pl, pins) ==
    IF bonus THEN Bonus(pins)
    ELSE IF pins = 10 THEN Strike
    ELSE IF pl = 0 THEN Spare(pins)
    ELSE Normal(pins)

\* variant: the rack is reset after every throw of frame 10
should_proceed_to_bonus_throw_any(pl, fr) == fr = 10

should_proceed_to_bonus_throw(pl, fr) == pl = 0 /\ fr = 10

\* variant: the bonus phase of frame 10 ends after two throws
should_proceed_to_next_frame_two(fr, bonus, tif, pl) ==
    IF fr = 10 /\ bonus THEN tif >= 2
    ELSE pl = 0 \/ tif >= 2

\* variant: the bonus phase of frame 10 ends after four throws
should_proceed_to_next_frame_four(fr, bonus, tif, pl) ==
    IF fr = 10 /\ bonus THEN tif >= 4
    ELSE pl = 0 \/ tif >= 2

\* variant: a cleared rack does not end the frame
should_proceed_to_next_frame_no_clear(fr, bonus, tif, pl) ==
    IF fr = 10 /\ bonus THEN tif >= 3
    ELSE tif >= 2

\* variant: frame 10 always takes three throws
should_proceed_to_next_frame_tenth_three(fr, bonus, tif, pl) ==
    IF fr = 10 THEN tif >= 3
    ELSE pl = 0 \/ tif >= 2

should_proceed_to_next_frame(fr, bonus, tif, pl) ==
    IF fr = 10 /\ bonus THEN tif >= 3
    ELSE pl = 0 \/ tif >= 2

(***************************************************************************)
(* prob3: score                                                            *)
(***************************************************************************)
\* variant: only the first following throw is added
calculate_completed_strike_or_zero_one(x) ==
    IF x[1].kind = "Strike"
    THEN AddU16(10, to_score(x[2]))
    ELSE 0

\* variant: a following strike is not added
calculate_completed_strike_or_zero_nostrike(x) ==
    IF x[1].kind = "Strike"
    THEN AddU16(AddU16(10, to_score(x[2])),
                IF x[3].kind = "Strike" THEN 0 ELSE to_score(x[3]))
    ELSE 0

calculate_completed_strike_or_zero(x) ==
    IF x[1].kind = "Strike"
    THEN AddU16(AddU16(10, to_score(x[2])), to_score(x[3]))
    ELSE 0

calculate_completed_spare_or_zero(x) ==
    IF x[2].kind = "Spare"
    THEN AddU16(x[2].n, to_score(x[3]))
    ELSE 0

\* variant: the last throw of every window is added, whatever its kind
calculate_normal_hits_or_zero_any(x) == to_score(x[3])

calculate_normal_hits_or_zero(x) ==
    IF x[3].kind = "Normal" THEN x[3].n ELSE 0

calculate_score_of_throw(x) ==
    AddU16(AddU16(calculate_completed_strike_or_zero(x),
                  calculate_completed_spare_or_zero(x)),
           calculate_normal_hits_or_zero(x))

\* the i-th slice of result.windows(3)
Window(r, i) == <<r[i], r[i + 1], r[i + 2]>>

RECURSIVE SumWindows(_, _)
SumWindows(r, i) ==
    IF i + 2 > Len(r) THEN 0
    ELSE AddU16(calculate_score_of_throw(Window(r, i)), SumWindows(r, i + 1))

calculate_score == SumWindows(result, 1)

score == IF is_game_complete THEN Some(calculate_score) ELSE None

(***************************************************************************)
(* prob3: new and roll                                                     *)
(***************************************************************************)
GameNew ==
    /\ frame = 1
    /\ is_bonus_throw = FALSE
    /\ throws_in_frame = 0
    /\ pins_left = 10
    /\ result = <<Normal(0), Normal(0)>>
    /\ ret = "new"
    /\ last_pins = 0
    /\ frame_of = <<0, 0>>
    /\ rolled = <<0, 0>>

\* variant: the pin check comes before the completion check
roll_checks_pins_first(pins) ==
    IF ~has_enough_pins(pins) THEN "NotEnoughPinsLeft"
    ELSE IF is_game_complete THEN "GameComplete"
    ELSE "Ok"

\* the two early returns of roll
roll_checks(pins) ==
    IF is_game_complete THEN "GameComplete"
    ELSE IF ~has_enough_pins(pins) THEN "NotEnoughPinsLeft"
    ELSE "Ok"

\* The caller. Outside its free stretch it rolls the filler, or 0 when the
\* filler does not fit the rack; in its free stretch, a run of consecutive
\* accepted rolls, it rolls any pin count. A probing caller tries every roll
\* that roll refuses; the others only try the filler.
FillerRoll == IF filler <= pins_left THEN filler ELSE 0

RollFails(pins) == roll_checks(pins) # "Ok"

CallerMayRoll(pins) ==
    IF RollFails(pins) THEN probing \/ pins = filler
    ELSE free_left > 0 \/ pins = FillerRoll

CallerStarts(pins) ==
    IF RollFails(pins) THEN started
    ELSE started \/ (free_left > 0 /\ pins # FillerRoll)

CallerAfter(pins) ==
    IF RollFails(pins) THEN free_left
    ELSE IF free_left > 0 /\ CallerStarts(pins) THEN free_left - 1
    ELSE free_left

roll(pins) ==
    IF roll_checks(pins) # "Ok" THEN
        /\ ret' = roll_checks(pins)
        /\ UNCHANGED <<frame, is_bonus_throw, throws_in_frame, pins_left,
                       result, frame_of, rolled>>
    ELSE
        LET pl1 == pins_left - pins                       \* remove_pins
            tr == get_throw_result_with_pins(is_bonus_throw, pl1, pins)
            tif1 == throws_in_frame + 1                   \* increase_throws_in_frame
            tobonus == should_proceed_to_bonus_throw(pl1, frame)
            pl2 == IF tobonus THEN 10 ELSE pl1            \* set_bonus_throw
            bonus2 == IF tobonus THEN TRUE ELSE is_bonus_throw
            tonext == should_proceed_to_next_frame(frame, bonus2, tif1, pl2)
        IN  /\ result' = Append(result, tr)               \* add_throw_result
            /\ frame_of' = Append(frame_of, frame)
            /\ rolled' = Append(rolled, pins)
            /\ is_bonus_throw' = bonus2
            /\ frame' = IF tonext THEN frame + 1 ELSE frame   \* set_new_frame
            /\ throws_in_frame' = IF tonext THEN 0 ELSE tif1
            /\ pins_left' = IF tonext THEN 10 ELSE pl2
            /\ ret' = "Ok"

Roll(pins) ==
    /\ CallerMayRoll(pins)
    /\ free_left' = CallerAfter(pins)
    /\ started' = CallerStarts(pins)
    /\ last_pins' = pins
    /\ roll(pins)
    /\ UNCHANGED <<filler, probing, inputs, pos, stack, outcome, retval>>
    /\ UNCHANGED playerVars

(***************************************************************************)
(* prob2: CalculatorInput                                                  *)
(***************************************************************************)
Add == [op |-> "Add"]
Subtract == [op |-> "Subtract"]
Multiply == [op |-> "Multiply"]
Divide == [op |-> "Divide"]
Value(n) == [op |-> "Value", n |-> n]

\* the i32 values the token sequences are built from
CalcValues == {-7, 0, 2, 3}

Operators == {Add, Subtract, Multiply, Divide}
Tokens == Operators \cup {Value(n) : n \in CalcValues}

RECURSIVE SeqsUpTo(_, _)
SeqsUpTo(S, n) ==
    IF n = 0 THEN {<<>>}
    ELSE LET shorter == SeqsUpTo(S, n - 1)
         IN  shorter \cup {Append(q, t) : q \in {w \in shorter : Len(w) = n - 1}, t \in S}

Abs(a) == IF a < 0 THEN -a ELSE a

\* i32 division truncates toward zero
TruncDiv(a, b) ==
    IF (a >= 0) = (b >= 0) THEN Abs(a) \div Abs(b) ELSE -(Abs(a) \div Abs(b))

\* variant: the operands are taken in the order they were popped
calculate_swapped(a, b, operator) ==
    CASE operator.op = "Add" -> b + a
      [] operator.op = "Subtract" -> b - a
      [] operator.op = "Multiply" -> b * a
      [] operator.op = "Divide" -> IF a = 0 THEN 0 ELSE TruncDiv(b, a)

\* a / b panics when b = 0; the caller tests that before applying calculate.
\* (The values reachable within MaxTokens stay far inside the i32 range.)
calculate(a, b, operator) ==
    CASE operator.op = "Add" -> a + b
      [] operator.op = "Subtract" -> a - b
      [] operator.op = "Multiply" -> a * b
      [] operator.op = "Divide" -> TruncDiv(a, b)

calculate_panics(a, b, operator) == operator.op = "Divide" /\ b = 0

Front(q) == SubSeq(q, 1, Len(q) - 1)
Last(q) == q[Len(q)]

\* variant: the top of a non-empty stack is the result
get_result_or_none_from_stack_top(st) ==
    IF Len(st) >= 1 /\ st[Len(st)].op = "Value" THEN Some(st[Len(st)].n) ELSE None

get_result_or_none_from_stack(st) ==
    IF Len(st) = 1 /\ st[1].op = "Value" THEN Some(st[1].n) ELSE None

\* variant: an operator that lacks operands is skipped
HandleInput_skips ==
    /\ outcome = "running"
    /\ pos < Len(inputs)
    /\ LET input == inputs[pos + 1]
       IN  IF input.op = "Value" THEN
               /\ stack' = Append(stack, Value(input.n))
               /\ pos' = pos + 1
               /\ UNCHANGED <<outcome, retval>>
           ELSE IF Len(stack) < 2 THEN
               /\ pos' = pos + 1
               /\ UNCHANGED <<stack, outcome, retval>>
           ELSE
               LET first == Last(Front(stack)).n
                   second == Last(stack).n
                   rest == Front(Front(stack))
               IN  IF calculate_panics(first, second, input) THEN
                       /\ stack' = rest
                       /\ outcome' = "panicked"
                       /\ UNCHANGED <<pos, retval>>
                   ELSE
                       /\ stack' = Append(rest, Value(calculate(first, second, input)))
                       /\ pos' = pos + 1
                       /\ UNCHANGED <<outcome, retval>>
    /\ UNCHANGED <<inputs>>
    /\ UNCHANGED bowlingVars
    /\ UNCHANGED playerVars

\* one iteration of the for loop of evaluate: handle_input(&mut stack, input)?
HandleInput ==
    /\ outcome = "running"
    /\ pos < Len(inputs)
    /\ LET input == inputs[pos + 1]
       IN  IF input.op = "Value" THEN
               /\ stack' = Append(stack, Value(input.n))
               /\ pos' = pos + 1
               /\ UNCHANGED <<outcome, retval>>
           ELSE IF Len(stack) = 0 THEN         \* first pop_value_from_stack fails
               /\ outcome' = "returned"
               /\ retval' = None
               /\ UNCHANGED <<stack, pos>>
           ELSE IF Len(stack) = 1 THEN         \* second pop_value_from_stack fails
               /\ stack' = Front(stack)
               /\ outcome' = "returned"
               /\ retval' = None
               /\ UNCHANGED pos
           ELSE
               LET a == Last(stack).n           \* popped first
                   b == Last(Front(stack)).n    \* popped second
                   rest == Front(Front(stack))
                   first == b                   \* Some((b, a))
                   second == a
               IN  IF calculate_panics(first, second, input) THEN
                       /\ stack' = rest
                       /\ outcome' = "panicked"
                       /\ UNCHANGED <<pos, retval>>
                   ELSE
                       /\ stack' = Append(rest, Value(calculate(first, second, input)))
                       /\ pos' = pos + 1
                       /\ UNCHANGED <<outcome, retval>>
    /\ UNCHANGED <<inputs>>
    /\ UNCHANGED bowlingVars
    /\ UNCHANGED playerVars

\* the end of evaluate: get_result_or_none_from_stack(&stack)
EvaluateReturn ==
    /\ outcome = "running"
    /\ pos = Len(inputs)
    /\ outcome' = "returned"
    /\ retval' = get_result_or_none_from_stack(stack)
    /\ UNCHANGED <<inputs, pos, stack>>
    /\ UNCHANGED bowlingVars
    /\ UNCHANGED playerVars

CalcIdle ==
    /\ inputs = <<>>
    /\ pos = 0
    /\ stack = <<>>
    /\ outcome = "running"
    /\ retval = None

(***************************************************************************)
(* prob1: u32, held as two 16-bit halves <<high, low>>                     *)
(***************************************************************************)
HalfWord == 65536

u32(n) == <<0, n>>
u32_ge(a, b) == a[1] > b[1] \/ (a[1] = b[1] /\ a[2] >= b[2])

\* a - b for a >= b
u32_sub(a, b) ==
    IF a[2] >= b[2] THEN <<a[1] - b[1], a[2] - b[2]>>
    ELSE <<a[1] - b[1] - 1, a[2] + HalfWord - b[2]>>

\* 2 * a: whether it exceeds u32::MAX, and its low 32 bits
u32_double_overflows(a) == 2 * a[1] + ((2 * a[2]) \div HalfWord) >= HalfWord
u32_double_wrapping(a) ==
    <<(2 * a[1] + ((2 * a[2]) \div HalfWord)) % HalfWord, (2 * a[2]) % HalfWord>>

(***************************************************************************)
(* prob1: Player                                                           *)
(***************************************************************************)
MIN_MANA_ACCESS_LEVEL == u32(10)
INITIAL_HEALTH == u32(100)
INITIAL_MANA == u32(100)

Player(h, m, l) == [health |-> h, mana |-> m, level |-> l]

\* the u32 values players and spell costs are built from
U32Max == <<HalfWord - 1, HalfWord - 1>>
U32Half == <<HalfWord \div 2, 0>>
HealthValues == {u32(0), u32(1), u32(20), u32(100), U32Max}
ManaValues == {u32(0), u32(2), u32(100), U32Half, U32Max}
LevelValues == {u32(0), u32(9), u32(10), u32(34), U32Max}
CostValues == {u32(0), u32(3), u32(30), u32(100), U32Half, U32Max}

\* variant: mana is granted from level 9
provide_mana_or_none_early(p) ==
    IF u32_ge(p.level, u32(9)) THEN Some(INITIAL_MANA) ELSE None

provide_mana_or_none(p) ==
    IF u32_ge(p.level, MIN_MANA_ACCESS_LEVEL) THEN Some(INITIAL_MANA) ELSE None

revive(p) ==
    IF p.health = u32(0)
    THEN Some(Player(INITIAL_HEALTH, provide_mana_or_none(p), p.level))
    ELSE None

\* variant: the health wraps below zero
decrease_health_wrapping(p, health_to_decrease) ==
    IF u32_ge(p.health, health_to_decrease)
    THEN u32_sub(p.health, health_to_decrease)
    ELSE u32_sub(U32Max, u32_sub(health_to_decrease, p.health))

\* the health decrease_health leaves
decrease_health(p, health_to_decrease) ==
    IF u32_ge(p.health, health_to_decrease)
    THEN u32_sub(p.health, health_to_decrease)
    ELSE u32(0)

Revive ==
    /\ p_op # "panicked"
    /\ revived' = revive(player)
    /\ p_op' = "revive"
    /\ p_before' = player
    /\ UNCHANGED <<player, build, p_cost, p_ret, casts>>
    /\ UNCHANGED bowlingVars
    /\ UNCHANGED calcVars

CastSpell(mana_cost) ==
    /\ p_op # "panicked"
    /\ casts < MaxCasts
    /\ casts' = casts + 1
    /\ p_cost' = mana_cost
    /\ p_before' = player
    /\ IF player.mana # None THEN
           LET current_mana == player.mana[1]
               has_enough_mana == u32_ge(current_mana, mana_cost)
           IN  IF has_enough_mana THEN
                   /\ player' = [player EXCEPT !.mana = Some(u32_sub(current_mana, mana_cost))]
                   /\ IF ~u32_double_overflows(mana_cost) THEN
                          /\ p_ret' = Some(u32_double_wrapping(mana_cost))
                          /\ p_op' = "cast_spell"
                      ELSE IF build = "debug" THEN   \* attempt to multiply with overflow
                          /\ p_ret' = None
                          /\ p_op' = "panicked"
                      ELSE
                          /\ p_ret' = Some(u32_double_wrapping(mana_cost))
                          /\ p_op' = "cast_spell"
               ELSE
                   /\ p_ret' = Some(u32(0))
                   /\ p_op' = "cast_spell"
                   /\ UNCHANGED player
       ELSE
           /\ player' = [player EXCEPT !.health = decrease_health(player, mana_cost)]
           /\ p_ret' = Some(u32(0))
           /\ p_op' = "cast_spell"
    /\ UNCHANGED <<build, revived>>
    /\ UNCHANGED bowlingVars
    /\ UNCHANGED calcVars

PlayerIdle ==
    /\ player = Player(INITIAL_HEALTH, None, u32(0))
    /\ build = "debug"
    /\ p_op = "new"
    /\ p_cost = u32(0)
    /\ p_ret = None
    /\ p_before = player
    /\ revived = None
    /\ casts = 0

(***************************************************************************)
(* Specifications                                                          *)
(***************************************************************************)
Init ==
    /\ GameNew
    /\ filler \in Fillers
    /\ free_left = MaxFree
    /\ started = FALSE
    /\ probing = FALSE
    /\ CalcIdle
    /\ PlayerIdle

Next == \E pins \in 0..MaxPins : Roll(pins)

Spec == Init /\ [][Next]_vars

InitProbe ==
    /\ GameNew
    /\ filler \in Fillers
    /\ free_left = MaxProbeFree
    /\ started = FALSE
    /\ probing = TRUE
    /\ CalcIdle
    /\ PlayerIdle

SpecProbe == InitProbe /\ [][Next]_vars

InitCalc ==
    /\ GameNew
    /\ filler = 0
    /\ free_left = 0
    /\ started = FALSE
    /\ probing = FALSE
    /\ inputs \in SeqsUpTo(Tokens, MaxTokens)
    /\ pos = 0
    /\ stack = <<>>
    /\ outcome = "running"
    /\ retval = None
    /\ PlayerIdle

NextCalc == HandleInput \/ EvaluateReturn

SpecCalc == InitCalc /\ [][NextCalc]_vars

InitPlayer ==
    /\ GameNew
    /\ filler = 0
    /\ free_left = 0
    /\ started = FALSE
    /\ probing = FALSE
    /\ CalcIdle
    /\ player \in {Player(h, m, l) : h \in HealthValues,
                                     m \in {None} \cup {Some(v) : v \in ManaValues},
                                     l \in LevelValues}
    /\ build \in {"debug", "release"}
    /\ p_op = "new"
    /\ p_cost = u32(0)
    /\ p_ret = None
    /\ p_before = player
    /\ revived = None
    /\ casts = 0

NextPlayer == Revive \/ \E mana_cost \in CostValues : CastSpell(mana_cost)

SpecPlayer == InitPlayer /\ [][NextPlayer]_vars

(***************************************************************************)
(* Reading the history of a game                                           *)
(***************************************************************************)
\* indices of result pushed while self.frame was f
Throws(f) == {i \in 3..Len(result) : frame_of[i] = f}
NumThrows(f) == Cardinality(Throws(f))
First(f) == CHOOSE i \in Throws(f) : \A j \in Throws(f) : i <= j

\* what the windows of calculate_score add on account of result[i]: the
\* strike rule of the window that starts at i, the spare rule of the window
\* whose middle is i and the normal rule of the window that ends at i
Owned(i) ==
    (IF i + 2 <= Len(result)
     THEN calculate_completed_strike_or_zero(Window(result, i)) ELSE 0)
    + (IF i + 1 <= Len(result)
       THEN calculate_completed_spare_or_zero(Window(result, i - 1)) ELSE 0)
    + calculate_normal_hits_or_zero(Window(result, i - 2))

RECURSIVE SumOwned(_, _)
SumOwned(f, i) ==
    IF i > Len(result) THEN 0
    ELSE (IF frame_of[i] = f THEN Owned(i) ELSE 0) + SumOwned(f, i + 1)

\* what frame f contributes to score()
Contribution(f) == SumOwned(f, 3)

RECURSIVE SumContributions(_)
SumContributions(f) == IF f = 0 THEN 0 ELSE Contribution(f) + SumContributions(f - 1)

\* the frame contributions add up to the score
ContributionsAreTheScore == score = Some(SumContributions(10))

\* frame 10 has had all the throws the rules of bowling give it
TenthFrameOver ==
    \/ NumThrows(10) = 3
    \/ /\ NumThrows(10) = 2
       /\ rolled[First(10)] + rolled[First(10) + 1] < 10

TenthStrike == NumThrows(10) >= 1 /\ rolled[First(10)] = 10
TenthSpare ==
    /\ NumThrows(10) >= 2
    /\ rolled[First(10)] < 10
    /\ rolled[First(10)] + rolled[First(10) + 1] = 10

gameState == <<frame, pins_left, throws_in_frame, is_bonus_throw, result>>

(***************************************************************************)
(* Claims                                                                  *)
(***************************************************************************)

\* C1: score() is Some exactly when the frame index has passed 10, and the
\* frame index has passed 10 exactly when frame 10 has had all its throws:
\* two when they leave pins standing, three after a strike or a spare. So
\* score() is None before frame 10, after a tenth-frame strike until both
\* bonus throws are taken and after a tenth-frame spare until the bonus throw
\* is taken.
C1_ScoreSomeIffPastFrameTen ==
    /\ (score # None) <=> (frame > 10)
    /\ (frame > 10) <=> TenthFrameOver
    /\ NumThrows(10) <= 3
    /\ Len(score) <= 1

\* a tenth-frame spare whose bonus throw is still owed: no score yet
C1_Witness ==
    /\ TenthSpare
    /\ NumThrows(10) = 2
    /\ score = None

\* C2: once the game is complete, every roll(p), p > 10 included, returns
\* Err(GameComplete) and changes neither frame, pins left, throws-in-frame,
\* bonus flag nor the throw history, and score() returns after the refused
\* roll what it returned when the game was completed.
C2_RollAfterCompleteFails ==
    [][frame > 10 =>
        /\ ret' = "GameComplete"
        /\ gameState' = gameState
        /\ ret = "Ok" => (score' = score /\ score' # None)]_vars

\* a roll of more than 10 pins was refused with GameComplete
C2_Witness ==
    /\ frame > 10
    /\ ret = "GameComplete"
    /\ last_pins > 10

\* C3: while the game is not complete, roll(p) with p above the pins standing
\* returns Err(NotEnoughPinsLeft) and changes nothing of the game state, and
\* roll(p) with p at most the pins standing succeeds and records the throw.
C3_RollAgainstPinsLeft ==
    [][frame <= 10 =>
        /\ last_pins' > pins_left =>
              /\ ret' = "NotEnoughPinsLeft"
              /\ gameState' = gameState
        /\ last_pins' <= pins_left =>
              /\ ret' = "Ok"
              /\ Len(result') = Len(result) + 1
              /\ rolled'[Len(result')] = last_pins']_vars

\* a roll of at most 10 pins was refused in the middle of a frame
C3_Witness ==
    /\ frame <= 10
    /\ throws_in_frame = 1
    /\ ret = "NotEnoughPinsLeft"
    /\ last_pins <= 10
    /\ last_pins = pins_left + 1

\* a frame 1..9 whose two rolls sum to 10, the first below 10
SpareFrame(f) ==
    /\ NumThrows(f) = 2
    /\ rolled[First(f)] < 10
    /\ rolled[First(f)] + rolled[First(f) + 1] = 10

\* C4: in a complete game every frame 1..9 whose two rolls sum to 10 with
\* the first below 10 contributes 10 plus the pins of the next roll, and the
\* next roll is counted in its own frame as well.
C4_SpareContribution ==
    frame > 10 =>
        \A f \in 1..9 : SpareFrame(f) =>
            /\ Contribution(f) = 10 + rolled[First(f) + 2]
            /\ Contribution(frame_of[First(f) + 2]) >= rolled[First(f) + 2]

\* a frame 1..9 whose first roll knocks down 10 pins
StrikeFrame(f) == NumThrows(f) >= 1 /\ rolled[First(f)] = 10

\* C5: in a complete game every frame 1..9 whose first roll is 10 has that
\* one roll and contributes 10 plus the pins of the next two rolls, also
\* when those are strikes or tenth-frame bonus throws; the contributions of
\* the ten frames add up to score().
C5_StrikeContribution ==
    frame > 10 =>
        /\ ContributionsAreTheScore
        /\ \A f \in 1..9 : StrikeFrame(f) =>
              /\ NumThrows(f) = 1
              /\ First(f) + 2 <= Len(result)
              /\ Contribution(f) = 10 + rolled[First(f) + 1] + rolled[First(f) + 2]

\* a strike in frame 9 followed by a tenth-frame strike and a bonus throw
C5_Witness ==
    /\ frame > 10
    /\ StrikeFrame(9)
    /\ TenthStrike
    /\ rolled[First(10) + 1] \in 1..9

\* C6: after a first throw of 10 in frame 10 the game is not complete while
\* fewer than two further rolls are taken and complete after the second,
\* whatever their pin counts; no fourth throw is ever recorded; frame 10
\* contributes 10 plus the pins of each bonus throw once.
C6_TenthStrikeTwoBonusThrows ==
    TenthStrike =>
        /\ NumThrows(10) <= 3
        /\ (NumThrows(10) < 3) <=> (frame = 10)
        /\ (NumThrows(10) = 3) <=> (frame > 10)
        /\ frame > 10 =>
              /\ Len(result) = First(10) + 2
              /\ Contribution(10) = 10 + rolled[First(10) + 1] + rolled[First(10) + 2]

\* a tenth-frame strike whose two bonus throws clear the rack together
C6_Witness ==
    /\ frame > 10
    /\ TenthStrike
    /\ rolled[First(10) + 1] \in 1..9
    /\ rolled[First(10) + 1] + rolled[First(10) + 2] = 10

\* C7: after two throws of frame 10 that sum to 10 with the first below 10,
\* exactly one further roll is accepted, after which the game is complete,
\* and frame 10 contributes 10 plus that bonus throw's pins.
C7_TenthSpareOneBonusThrow ==
    TenthSpare =>
        /\ NumThrows(10) <= 3
        /\ (NumThrows(10) = 2) <=> (frame = 10)
        /\ (NumThrows(10) = 3) <=> (frame > 10)
        /\ frame > 10 =>
              /\ Len(result) = First(10) + 2
              /\ Contribution(10) = 10 + rolled[First(10) + 2]

\* the rolls of the game so far are all 10
AllTens == \A i \in 3..Len(rolled) : rolled[i] = 10

\* C8: on a new game twelve roll(10) calls succeed one after the other, a
\* thirteenth fails with GameComplete, and score() is Some(300).
C8_PerfectGame ==
    AllTens =>
        /\ Len(rolled) - 2 <= 12
        /\ Len(rolled) - 2 < 12 => (frame <= 10 /\ pins_left = 10 /\ score = None)
        /\ Len(rolled) - 2 = 12 => (frame > 10 /\ score = Some(300))
        /\ last_pins = 10 =>
              \/ ret = "Ok"
              \/ ret = "new"
              \/ ret = "GameComplete" /\ Len(rolled) - 2 = 12

\* the thirteenth roll(10) was refused and the score is 300
C8_Witness ==
    /\ AllTens
    /\ Len(rolled) - 2 = 12
    /\ last_pins = 10
    /\ ret = "GameComplete"
    /\ score = Some(300)

\* frame 10 began with a strike and one bonus throw has been taken
SecondBonusDue == TenthStrike /\ NumThrows(10) = 2

\* C9: after a tenth-frame strike and a first bonus throw b1, the second
\* bonus roll p is accepted exactly when p <= 10 - b1 if b1 < 10, and exactly
\* when p <= 10 if b1 = 10; otherwise it fails with NotEnoughPinsLeft.
C9_SecondBonusRack ==
    [][SecondBonusDue =>
        LET b1 == rolled[First(10) + 1]
            standing == IF b1 = 10 THEN 10 ELSE 10 - b1
        IN  /\ last_pins' <= standing => ret' = "Ok"
            /\ last_pins' > standing => ret' = "NotEnoughPinsLeft"]_vars

\* after a first bonus throw below 10, a second bonus roll of at most 10 pins
\* was refused
C9_Witness ==
    /\ SecondBonusDue
    /\ rolled[First(10) + 1] \in 1..9
    /\ ret = "NotEnoughPinsLeft"
    /\ last_pins <= 10

\* stack depth after the first k tokens when no operator lacks operands
RECURSIVE Depth(_, _)
Depth(q, k) ==
    IF k = 0 THEN 0
    ELSE Depth(q, k - 1) + (IF q[k].op = "Value" THEN 1 ELSE -1)

\* no operator meets fewer than two values and one value is left at the end
WellFormed(q) ==
    /\ \A k \in 1..Len(q) : q[k].op # "Value" => Depth(q, k - 1) >= 2
    /\ Depth(q, Len(q)) = 1

\* C10: when evaluate returns, it returns Some(v) exactly when no operator
\* met fewer than two values and exactly one value v is left on the stack;
\* it returns None for the empty sequence, for an operator with too few
\* operands and when more than one value is left.
C10_EvaluateSomeIffWellFormed ==
    outcome = "returned" =>
        /\ (retval # None) <=> WellFormed(inputs)
        /\ retval # None => (Len(retval) = 1 /\ stack = <<Value(retval[1])>>)
        /\ inputs = <<>> => retval = None

\* an expression with two operators was evaluated to a value
C10_Witness ==
    /\ outcome = "returned"
    /\ retval # None
    /\ Len(inputs) = 5

\* what a binary operator gives for a left and a right operand; the quotient
\* is the integer q with a = q * b + r, |r| < |b| and r of the sign of a
RefApply(operator, a, b) ==
    CASE operator.op = "Add" -> a + b
      [] operator.op = "Subtract" -> a - b
      [] operator.op = "Multiply" -> a * b
      [] operator.op = "Divide" ->
            CHOOSE q \in -Abs(a)..Abs(a) :
                /\ Abs(a - q * b) < Abs(b)
                /\ (a - q * b = 0 \/ ((a - q * b > 0) = (a > 0)))

IsValue(t) == t.op = "Value"

\* C11: the value pushed earlier is the left operand and the value pushed
\* later the right one: [a, b, op] gives a op b, with a / b truncated toward
\* zero, and the nested forms [a, b, op1, c, op2] and [a, b, c, op1, op2]
\* give (a op1 b) op2 c and a op2 (b op1 c).
C11_OperandOrder ==
    outcome = "returned" =>
        /\ (/\ Len(inputs) = 3
            /\ IsValue(inputs[1]) /\ IsValue(inputs[2]) /\ ~IsValue(inputs[3]))
           => retval = Some(RefApply(inputs[3], inputs[1].n, inputs[2].n))
        /\ (/\ Len(inputs) = 5
            /\ IsValue(inputs[1]) /\ IsValue(inputs[2]) /\ ~IsValue(inputs[3])
            /\ IsValue(inputs[4]) /\ ~IsValue(inputs[5]))
           => retval = Some(RefApply(inputs[5],
                                     RefApply(inputs[3], inputs[1].n, inputs[2].n),
                                     inputs[4].n))
        /\ (/\ Len(inputs) = 5
            /\ IsValue(inputs[1]) /\ IsValue(inputs[2]) /\ IsValue(inputs[3])
            /\ ~IsValue(inputs[4]) /\ ~IsValue(inputs[5]))
           => retval = Some(RefApply(inputs[5],
                                     inputs[1].n,
                                     RefApply(inputs[4], inputs[2].n, inputs[3].n)))

\* -7 2 / was evaluated to -3
C11_Witness ==
    /\ outcome = "returned"
    /\ inputs = <<Value(-7), Value(2), Divide>>
    /\ retval = Some(-3)

\* q[k] is an operator that meets fewer than two values
UnderflowAt(q, k) == ~IsValue(q[k]) /\ Depth(q, k - 1) < 2
Underflows(q) == \E k \in 1..Len(q) : UnderflowAt(q, k)
FirstUnderflow(q) ==
    CHOOSE k \in 1..Len(q) :
        UnderflowAt(q, k) /\ \A j \in 1..(k - 1) : ~UnderflowAt(q, j)

\* C12: evaluate never goes on past an operator that meets fewer than two
\* values: it returns None there, whatever tokens follow.
C12_FailsClosed ==
    /\ \A k \in 1..pos : ~UnderflowAt(inputs, k)
    /\ (outcome = "returned" /\ Underflows(inputs)) =>
          /\ retval = None
          /\ pos = FirstUnderflow(inputs) - 1

\* None was returned at an operator although the tokens after it form a
\* valid expression
C12_Witness ==
    /\ outcome = "returned"
    /\ retval = None
    /\ Underflows(inputs)
    /\ WellFormed(SubSeq(inputs, pos + 2, Len(inputs)))

\* u32 values as numbers: a < b, and a + b = c without overflow
Lt(a, b) == a[1] < b[1] \/ (a[1] = b[1] /\ a[2] < b[2])
Plus(a, b, c) ==
    /\ c[2] = (a[2] + b[2]) % HalfWord
    /\ c[1] = a[1] + b[1] + ((a[2] + b[2]) \div HalfWord)
    /\ c[1] < HalfWord

\* C13: revive returns Some exactly when health is 0; the returned player
\* has health 100, the same level, and mana Some(100) from level 10 on and
\* None below, whatever mana the dead player had; the player revive was
\* called on is as before.
C13_Revive ==
    p_op = "revive" =>
        /\ (revived # None) <=> (p_before.health = <<0, 0>>)
        /\ revived # None =>
              /\ Len(revived) = 1
              /\ revived[1].health = <<0, 100>>
              /\ revived[1].level = p_before.level
              /\ revived[1].mana =
                    IF Lt(p_before.level, <<0, 10>>) THEN None ELSE Some(<<0, 100>>)
        /\ player = p_before

\* a dead level 9 player that had a mana pool was revived without one
C13_Witness ==
    /\ p_op = "revive"
    /\ revived # None
    /\ p_before.level = <<0, 9>>
    /\ p_before.mana # None
    /\ revived[1].mana = None

\* C14: with a mana pool Some(m), cast_spell(c) with c <= m sets mana to
\* Some(m - c) and returns 2 * c, and with c > m returns 0 and changes
\* nothing; health and level stay as they were.
C14_CastSpellWithMana ==
    (p_op \in {"cast_spell", "panicked"} /\ p_before.mana # None) =>
        /\ player.health = p_before.health
        /\ player.level = p_before.level
        /\ IF Lt(p_before.mana[1], p_cost)
           THEN /\ p_ret = Some(<<0, 0>>)
                /\ player = p_before
           ELSE /\ player.mana # None
                /\ Plus(player.mana[1], p_cost, p_before.mana[1])
                /\ p_ret # None
                /\ Plus(p_cost, p_cost, p_ret[1])

\* C15: without a mana pool, cast_spell(c) returns 0, sets health to
\* health - c when health >= c and to 0 otherwise, and leaves mana None and
\* the level as it was.
C15_CastSpellWithoutMana ==
    (p_op \in {"cast_spell", "panicked"} /\ p_before.mana = None) =>
        /\ p_op = "cast_spell"
        /\ p_ret = Some(<<0, 0>>)
        /\ player.mana = None
        /\ player.level = p_before.level
        /\ IF Lt(p_before.health, p_cost)
           THEN player.health = <<0, 0>>
           ELSE Plus(player.health, p_cost, p_before.health)

\* a spell that costs more than the health left was cast without a mana pool
C15_Witness ==
    /\ p_op = "cast_spell"
    /\ p_before.mana = None
    /\ p_before.health # <<0, 0>>
    /\ Lt(p_before.health, p_cost)
    /\ player.health = <<0, 0>>

\* C16: a throw is recorded as Strike only if it was the first throw of its
\* frame; a 10 that follows a 0 in the same frame is not recorded as Strike.
C16_StrikeOnlyOnFirstThrow ==
    \A i \in 3..Len(result) :
        result[i].kind = "Strike" => i = First(frame_of[i])

\* the scoring rules that apply to the window starting at i
StrikeRule(i) == result[i].kind = "Strike"
SpareRule(i) == result[i + 1].kind = "Spare"
NormalRule(i) == result[i + 2].kind = "Normal"
RulesApplying(i) ==
    (IF StrikeRule(i) THEN 1 ELSE 0) + (IF SpareRule(i) THEN 1 ELSE 0)
    + (IF NormalRule(i) THEN 1 ELSE 0)
Windows == 1..(Len(result) - 2)

\* C17 as stated: in a complete game exactly one of the three rules applies
\* to every window of three consecutive entries.
C17_ExactlyOneRule ==
    frame > 10 => \A i \in Windows : RulesApplying(i) = 1

\* C17, amended: in a complete game at most two of the three rules apply to
\* a window: the strike rule and the spare rule never apply together, while
\* the normal rule may apply beside either, and no rule may apply at all.
C17_StrikeAndSpareRulesExclusive ==
    frame > 10 => \A i \in Windows :
        /\ ~(StrikeRule(i) /\ SpareRule(i))
        /\ RulesApplying(i) <= 2

\* a complete game with a window to which two rules apply and a window to
\* which none applies
C17_Witness ==
    /\ frame > 10
    /\ \E i \in Windows : StrikeRule(i) /\ NormalRule(i)
    /\ \E i \in Windows : SpareRule(i) /\ NormalRule(i)
    /\ \E i \in Windows : RulesApplying(i) = 0

\* C18: over every roll call the frame index stays within 1..11, never
\* decreases and grows by at most 1; a successful roll appends one entry to
\* the throw history and changes no earlier entry; a failed roll leaves the
\* history as it was.
C18_FrameAndHistoryMonotone ==
    [][/\ frame \in 1..11
       /\ frame' \in 1..11
       /\ frame' >= frame
       /\ frame' <= frame + 1
       /\ ret' = "Ok" =>
             /\ Len(result') = Len(result) + 1
             /\ SubSeq(result', 1, Len(result)) = result
       /\ ret' # "Ok" => result' = result]_vars

\* a roll was refused in a later frame, after throws had been recorded
C18_Witness ==
    /\ frame \in 2..10
    /\ ret = "NotEnoughPinsLeft"
    /\ Len(result) > 3

\* frame 10 has just been cleared by a strike or a spare
TenthJustCleared ==
    /\ frame = 10
    /\ \/ NumThrows(10) = 1 /\ rolled[First(10)] = 10
       \/ /\ NumThrows(10) = 2
          /\ rolled[First(10)] < 10
          /\ rolled[First(10)] + rolled[First(10) + 1] = 10

\* C19: pins left is always within 0..10; it is 10 whenever throws-in-frame
\* is 0 and right after frame 10 is cleared by a strike or a spare.
C19_PinsLeftRange ==
    /\ pins_left \in 0..10
    /\ throws_in_frame = 0 => pins_left = 10
    /\ TenthJustCleared => pins_left = 10

\* frame 10 has just been cleared by its second throw and the rack is full
C19_Witness ==
    /\ TenthJustCleared
    /\ NumThrows(10) = 2
    /\ throws_in_frame = 2
    /\ pins_left = 10

\* successful rolls so far
NumRolls == Len(rolled) - 2

\* frame 10 was cleared by a strike or by its first two throws
TenthCleared ==
    \/ rolled[First(10)] = 10
    \/ rolled[First(10)] + rolled[First(10) + 1] = 10

\* C20: a game never has more than 21 successful rolls, is complete after
\* the 21st and never before the 11th; every finished frame 1..9 took one
\* roll when its first roll was 10 and two otherwise; frame 10 of a complete
\* game took three rolls when it was cleared by a strike or a spare and two
\* otherwise.
C20_GameLength ==
    /\ NumRolls <= 21
    /\ NumRolls = 21 => frame > 10
    /\ frame > 10 => NumRolls >= 11
    /\ \A f \in 1..9 : f < frame =>
          NumThrows(f) = IF rolled[First(f)] = 10 THEN 1 ELSE 2
    /\ frame > 10 => NumThrows(10) = IF TenthCleared THEN 3 ELSE 2

\* a game completed by eleven rolls
C20_Witness ==
    /\ frame > 10
    /\ NumRolls = 11

\* what the window starting at i adds, in unbounded integers and from the
\* pins that were rolled
PlainWindow(i) ==
    (IF StrikeRule(i) THEN 10 + rolled[i + 1] + rolled[i + 2] ELSE 0)
    + (IF SpareRule(i) THEN rolled[i + 1] + rolled[i + 2] ELSE 0)
    + (IF NormalRule(i) THEN rolled[i + 2] ELSE 0)

RECURSIVE PlainSum(_)
PlainSum(i) == IF i + 2 > Len(result) THEN 0 ELSE PlainWindow(i) + PlainSum(i + 1)

\* C21: for every complete game score() is Some(s) with 0 <= s <= 300, and
\* s is the sum of the windows in unbounded integers: the u16 sum of
\* calculate_score does not overflow.
C21_ScoreWithinRange ==
    frame > 10 =>
        /\ Len(score) = 1
        /\ score[1] \in 0..300
        /\ score[1] = PlainSum(1)
        /\ PlainSum(1) < U16

\* a game of thirteen rolls, a 0 among them, that scores 300
C21_Witness ==
    /\ frame > 10
    /\ NumRolls = 13
    /\ score = Some(300)

\* C22: evaluate never aborts: whatever the tokens, a Divide by 0 included,
\* it comes to a result, Some or None.
C22_EvaluateTotal == outcome # "panicked"
====
